---- MODULE Spec2Model ----
(***************************************************************************)
(* The MHR refresh scripts of the scouting portal:                         *)
(*   - scripts/update-teams-from-mhr.mjs, first variant  (updateTeam)      *)
(*   - scripts/update-teams-from-mhr.mjs, second variant (updateOneTeam)   *)
(*   - append-ranks-to-history                           (main)            *)
(*   - the tournament updater for inline opponents       (updateFile)      *)
(*                                                                         *)
(* Time is counted in hours; a calendar day is 24 of them (the scripts     *)
(* take the UTC day of new Date()).  A rating is an integer number of      *)
(* hundredths (86.07 is 8607); a record "W-L-T" is the tuple <<W, L, T>>.  *)
(***************************************************************************)
EXTENDS Integers, Sequences, FiniteSets, TLC

\* An absent JSON field / undefined / null, for numbers and dates.
NoVal == 0 - 1
\* An absent (falsy) record string.
NoRecord == << >>

(***************************************************************************)
(* Bounds of the model.                                                    *)
(***************************************************************************)
\* The clock stops at the end of day MaxDay.
MaxDay == 2
\* A history series is not grown beyond MaxHist entries.
MaxHist == 3

VARIABLES
  now,      \* the wall clock, in hours
  teams,    \* src/content/teams: the team files, in readdir order
  hist,     \* src/data/mhr-history: hist[i] is the series of team i's slug
  tourn,    \* src/content/tournaments: the tournament files, in readdir order
  opts,     \* the command line flags of the run
  run,      \* the running script: its place in main's loop and its exit status
  data,     \* updateFile's parsed copy of the tournament file it is working on
  lastRun,  \* what the previous step's history run saw and did
  log,      \* the I/O events of the run, in order
  call      \* the last call of a library function: its arguments and result

vars == <<now, teams, hist, tourn, opts, run, data, lastRun, log, call>>

\* The variables of a stepwise run, which the history specification leaves alone.
runVars == <<tourn, opts, run, data, call>>

\* new Date().toISOString().slice(0,10): the UTC calendar day of an instant.
dateISO(t) == t \div 24

today == dateISO(now)

(***************************************************************************)
(* Data                                                                    *)
(***************************************************************************)
\* One element of a history file: {date, rating?, stateRank?, nationalRank?}.
Entry(d, r, s, n) == [date |-> d, rating |-> r, stateRank |-> s, nationalRank |-> n]

\* A team JSON object (the fields the scripts read or write).
Team(url, r, rec, s, n, lu) ==
  [mhrUrl |-> url, rating |-> r, record |-> rec,
   mhrStateRank |-> s, mhrNationalRank |-> n, lastUpdated |-> lu]

\* A file on disk: parseable JSON (ok) or unreadable / malformed.
File(json) == [ok |-> TRUE, json |-> json]
BadFile(json) == [ok |-> FALSE, json |-> json]

\* What the parsers extract from a fetched page.
Page(r, rec, n, s) == [rating |-> r, record |-> rec, nat |-> n, st |-> s]

\* The values a history run has for today.
Snap(r, s, n) == [rating |-> r, stateRank |-> s, nationalRank |-> n]

NoRun == [script |-> "none", day |-> NoVal, snap |-> Snap(NoVal, NoVal, NoVal),
          outcome |-> "none", repeat |-> FALSE]

\* An I/O event of a run: what happened, on which file, on which opponent of it.
Ev(kind, f, i) == <<kind, f, i>>

\* The events of updateTeam's writes on file f.
WriteEvents(res, f) ==
  (IF res.wroteHist THEN <<Ev("write history", f, 0)>> ELSE << >>)
    \o (IF res.wroteTeam THEN <<Ev("write team", f, 0)>> ELSE << >>)

\* The command line: --force, --stale-days, --include-past, --dry-run.
Opts(force, staleDays, includePast, dry) ==
  [force |-> force, staleDays |-> staleDays, includePast |-> includePast,
   dryRun |-> dry]

\* No library function was called.
NoCall == [fn |-> "none"]

\* No script is running.
Idle == [script |-> "none", pc |-> "idle", fi |-> 0, oi |-> 0,
         changed |-> FALSE, exit |-> NoVal, today |-> NoVal]

\* The number of entries of series h dated d.
CountDate(h, d) == Cardinality({i \in DOMAIN h : h[i].date = d})

(***************************************************************************)
(* update-teams-from-mhr.mjs, first variant: updateTeam(teamPath), after   *)
(* the team file was read and its page fetched.  The result is the content *)
(* of the two files afterwards and the writes performed.                   *)
(***************************************************************************)
updateTeam(team, history, page, day, dry) ==
  LET rating == page.rating
      record == page.record
      ratingChanged == rating # NoVal /\ rating # team.rating
      recordChanged == record # NoRecord /\ record # team.record
      changed == ratingChanged \/ recordChanged
      t1 == IF ratingChanged THEN [team EXCEPT !.rating = rating] ELSE team
      t2 == IF recordChanged THEN [t1 EXCEPT !.record = record] ELSE t1
      t3 == [t2 EXCEPT !.lastUpdated = day]
      n == Len(history)
      \* Only append if new date or rating changed
      due == \/ n = 0
             \/ history[n].date # day
             \/ (rating # NoVal /\ history[n].rating # rating)
      push == due /\ rating # NoVal
      h1 == IF push THEN Append(history, Entry(day, rating, NoVal, NoVal))
            ELSE history
  IN  [team |-> IF changed /\ ~dry THEN t3 ELSE team,
       hist |-> IF push /\ ~dry THEN h1 ELSE history,
       wroteHist |-> push /\ ~dry,
       wroteTeam |-> changed /\ ~dry]

(***************************************************************************)
(* append-ranks-to-history: the body of main's loop for one team file.     *)
(***************************************************************************)
\* appendRanksEntry taking the rating from the team file only.
appendRanksEntry_NoCarry(team, history, day) ==
  Entry(day, team.rating, team.mhrStateRank, team.mhrNationalRank)

appendRanksEntry(team, history, day) ==
  LET n == Len(history)
      lastRating == IF n > 0 THEN history[n].rating ELSE NoVal
      \* keep latest rating we have (either last entry or team.rating)
      rating == IF team.rating # NoVal THEN team.rating ELSE lastRating
  IN  Entry(day, rating, team.mhrStateRank, team.mhrNationalRank)

\* appendRanks without the same-day filter.
appendRanks_NoFilter(team, history, day) ==
  Append(history, appendRanksEntry(team, history, day))

\* appendRanks putting today's entry in front (unshift instead of push).
appendRanks_Unshift(team, history, day) ==
  <<appendRanksEntry(team, history, day)>>
    \o SelectSeq(history, LAMBDA h : h.date # day)

appendRanks(team, history, day) ==
  LET \* avoid duplicate day
      filtered == SelectSeq(history, LAMBDA h : h.date # day)
  IN  Append(filtered, appendRanksEntry(team, history, day))

(***************************************************************************)
(* The history specification: one team, its history file, and runs of the  *)
(* two history-writing scripts on any day, in any order.                   *)
(***************************************************************************)
Ratings == {8000, 8100}
Records == {<<10, 4, 2>>}
PagesHist ==
  {Page(r, rec, NoVal, NoVal) : r \in Ratings \cup {NoVal}, rec \in Records \cup {NoRecord}}

InitTeams ==
  {Team(url, r, NoRecord, s, NoVal, NoVal) :
     url \in BOOLEAN, r \in {NoVal, 8000}, s \in {NoVal, 3}}

InitSeries ==
  {<< >>,
   <<Entry(0, 8000, NoVal, NoVal)>>,
   <<Entry(0, 8100, 3, NoVal)>>,
   <<Entry(0, 8000, NoVal, NoVal), Entry(1, 8000, 3, NoVal)>>}

Init ==
  /\ now = 24
  /\ teams \in {<<File(t)>> : t \in InitTeams}
  /\ hist \in {<<h>> : h \in InitSeries}
  /\ tourn = << >>
  /\ opts = Opts(FALSE, 7, FALSE, FALSE)
  /\ run = Idle
  /\ data = << >>
  /\ lastRun = NoRun
  /\ log = << >>
  /\ call = NoCall

\* Time passes: the next run is on a later day.
Tick ==
  /\ now + 24 < (MaxDay + 1) * 24
  /\ now' = now + 24
  /\ lastRun' = NoRun
  /\ log' = << >>
  /\ UNCHANGED <<teams, hist, runVars>>

\* One run of the first team updater on team file f.
UpdateTeamRun(f) ==
  /\ teams[f].ok
  /\ Len(hist[f]) < MaxHist
  /\ LET team == teams[f].json IN
     \/ \* no mhrUrl, skipping
        /\ ~team.mhrUrl
        /\ lastRun' = [NoRun EXCEPT !.script = "updateTeam", !.day = today,
                                    !.outcome = "skipped"]
        /\ log' = << >>
        /\ UNCHANGED <<teams, hist>>
     \/ \* fetch error
        /\ team.mhrUrl
        /\ lastRun' = [NoRun EXCEPT !.script = "updateTeam", !.day = today,
                                    !.outcome = "skipped"]
        /\ log' = <<Ev("fetch", f, 0), Ev("fetch failed", f, 0)>>
        /\ UNCHANGED <<teams, hist>>
     \/ /\ team.mhrUrl
        /\ \E page \in PagesHist, dry \in BOOLEAN :
             LET res == updateTeam(team, hist[f], page, today, dry)
                 snap == Snap(page.rating, NoVal, NoVal)
             IN  /\ teams' = [teams EXCEPT ![f] = File(res.team)]
                 /\ hist' = [hist EXCEPT ![f] = res.hist]
                 /\ log' = <<Ev("fetch", f, 0)>> \o WriteEvents(res, f)
                 /\ lastRun' = [script |-> "updateTeam", day |-> today,
                                snap |-> snap,
                                outcome |-> IF dry THEN "dry" ELSE "ran",
                                repeat |-> /\ lastRun.script = "updateTeam"
                                           /\ lastRun.outcome = "ran"
                                           /\ ~dry
                                           /\ lastRun.day = today
                                           /\ lastRun.snap = snap]
  /\ UNCHANGED <<now, runVars>>

\* One run of append-ranks-to-history on team file f.
AppendRanksRun(f) ==
  /\ teams[f].ok
  /\ Len(hist[f]) < MaxHist
  /\ LET team == teams[f].json
         snap == Snap(team.rating, team.mhrStateRank, team.mhrNationalRank)
     IN  /\ hist' = [hist EXCEPT ![f] = appendRanks(team, hist[f], today)]
         /\ log' = <<Ev("write history", f, 0)>>
         /\ lastRun' = [script |-> "appendRanks", day |-> today, snap |-> snap,
                        outcome |-> "ran",
                        repeat |-> /\ lastRun.script = "appendRanks"
                                   /\ lastRun.day = today
                                   /\ lastRun.snap = snap]
  /\ UNCHANGED <<now, teams, runVars>>

Next ==
  \/ Tick
  \/ \E f \in DOMAIN teams : UpdateTeamRun(f)
  \/ \E f \in DOMAIN teams : AppendRanksRun(f)

Spec == Init /\ [][Next]_vars

(***************************************************************************)
(* The tournament updater for inline opponents (updateFile).               *)
(***************************************************************************)
\* An element of a tournament's opponents array: a slug string, or an inline
\* object {name, mhrUrl?, rating?, record?, mhrNationalRank?, mhrStateRank?,
\* updatedFromMHRAt?}.
Opp(kind, url, r, rec, n, s, at) ==
  [kind |-> kind, mhrUrl |-> url, rating |-> r, record |-> rec,
   mhrNationalRank |-> n, mhrStateRank |-> s, updatedFromMHRAt |-> at]

SlugOpp == Opp("slug", FALSE, NoVal, NoRecord, NoVal, NoVal, NoVal)

\* A tournament JSON object: its end date (a day) and its opponents.
Tournament(endDate, opps) == [endDate |-> endDate, opponents |-> opps]

\* isPast(getTournamentEndDate(data)): the tournament ended before today.
isPast(endDate, t) == endDate # NoVal /\ endDate < dateISO(t)

\* safeNumber: a finite number above 0, or undefined.
safeNumber(n) == IF n # NoVal /\ n > 0 THEN n ELSE NoVal

\* Date.now() - new Date(opp.updatedFromMHRAt).getTime(), in milliseconds.
ageMs(opp, t) == (t - opp.updatedFromMHRAt) * 60 * 60 * 1000

maxAgeMs(staleDays) == staleDays * 24 * 60 * 60 * 1000

\* isCached without the --force test.
isCached_IgnoreForce(opp, force) ==
  /\ opp.updatedFromMHRAt # NoVal
  /\ opp.rating # NoVal
  /\ opp.record # NoRecord

\* isCached without the record test.
isCached_NoRecordTest(opp, force) ==
  /\ ~force
  /\ opp.updatedFromMHRAt # NoVal
  /\ opp.rating # NoVal

\* isCached without the rating test.
isCached_NoRatingTest(opp, force) ==
  /\ ~force
  /\ opp.updatedFromMHRAt # NoVal
  /\ opp.record # NoRecord

\* The cache test applies: not forced, and the opponent has a timestamp, a
\* numeric rating and a record.
isCached(opp, force) ==
  /\ ~force
  /\ opp.updatedFromMHRAt # NoVal
  /\ opp.rating # NoVal
  /\ opp.record # NoRecord

\* isFresh with <= for <.
isFresh_Inclusive(opp, staleDays, t) == ageMs(opp, t) <= maxAgeMs(staleDays)

isFresh(opp, staleDays, t) == ageMs(opp, t) < maxAgeMs(staleDays)

\* skipsOpponent without the test of mhrUrl.
skipsOpponent_NoUrlTest(opp, force, staleDays, t) ==
  \/ opp.kind = "slug"
  \/ (isCached(opp, force) /\ isFresh(opp, staleDays, t))

\* The loop passes over the opponent without a request: `continue`.
skipsOpponent(opp, force, staleDays, t) ==
  \/ opp.kind = "slug"
  \/ ~opp.mhrUrl
  \/ (isCached(opp, force) /\ isFresh(opp, staleDays, t))

\* refreshOpponent leaving updatedFromMHRAt as it was.
refreshOpponent_NoTimestamp(opp, page, t) ==
  [opp EXCEPT
     !.rating = IF page.rating # NoVal THEN safeNumber(page.rating) ELSE @,
     !.record = IF page.record # NoRecord THEN page.record ELSE @,
     !.mhrNationalRank = IF page.nat # NoVal THEN page.nat ELSE @,
     !.mhrStateRank = IF page.st # NoVal THEN page.st ELSE @]

\* The fields updateFile sets on a fetched opponent.
refreshOpponent(opp, page, t) ==
  [opp EXCEPT
     !.rating = IF page.rating # NoVal THEN safeNumber(page.rating) ELSE @,
     !.record = IF page.record # NoRecord THEN page.record ELSE @,
     !.mhrNationalRank = IF page.nat # NoVal THEN page.nat ELSE @,
     !.mhrStateRank = IF page.st # NoVal THEN page.st ELSE @,
     !.updatedFromMHRAt = t]

(***************************************************************************)
(* update-teams-from-mhr.mjs, second variant: updateOneTeam(fp), after the *)
(* team file was read and `info` extracted.                                *)
(***************************************************************************)
NoInfo == Page(NoVal, NoRecord, NoVal, NoVal)

\* info holds none of national rank, state rank, rating, record.
emptyInfo(info) ==
  /\ info.nat = NoVal
  /\ info.st = NoVal
  /\ info.rating = NoVal
  /\ info.record = NoRecord

updateOneTeam(team, info, day) ==
  LET nationalRank == info.nat
      stateRank == info.st
      rating == safeNumber(info.rating)
      record == IF Len(info.record) = 3 THEN info.record ELSE NoRecord
      skipped == /\ nationalRank = NoVal
                 /\ stateRank = NoVal
                 /\ rating = NoVal
                 /\ record = NoRecord
      n1 == IF stateRank # NoVal /\ team.mhrStateRank # stateRank
            THEN [team EXCEPT !.mhrStateRank = stateRank] ELSE team
      n2 == IF nationalRank # NoVal /\ n1.mhrNationalRank # nationalRank
            THEN [n1 EXCEPT !.mhrNationalRank = nationalRank] ELSE n1
      n3 == IF rating # NoVal /\ n2.rating # rating
            THEN [n2 EXCEPT !.rating = rating] ELSE n2
      n4 == IF record # NoRecord /\ n3.record # record
            THEN [n3 EXCEPT !.record = record] ELSE n3
      changed == ~skipped /\ n4 # team
  IN  [team |-> IF changed THEN [n4 EXCEPT !.lastUpdated = day] ELSE team,
       skipped |-> skipped,
       changed |-> changed]

(***************************************************************************)
(* The run specification: one run of one script over its directory, file   *)
(* by file, with fetches that may fail and files that may be malformed.    *)
(***************************************************************************)
\* The clock ticks at most MaxTicks times, 12 hours each, during a run.
MaxTicks == 1

\* The run starts at noon of day 8.
RunStart == 8 * 24 + 12

\* The outcome of an extraction: a page's parsed values, a thrown error, or a
\* response that is not ok.
Got(page) == [kind |-> "page", page |-> page]
Threw == [kind |-> "throw", page |-> NoInfo]
NotOk == [kind |-> "notok", page |-> NoInfo]

PagesRun == {Page(8100, <<11, 4, 2>>, 12, 3), Page(8000, NoRecord, NoVal, NoVal), NoInfo}

Scripts == {"teams-v1", "teams-v2", "append-ranks", "tournaments"}

Running(script) == [script |-> script, pc |-> "start", fi |-> 0, oi |-> 0,
                    changed |-> FALSE, exit |-> NoVal, today |-> NoVal]

RunTeams ==
  {Team(url, r, NoRecord, NoVal, NoVal, NoVal) : url \in BOOLEAN, r \in {NoVal, 8000}}

NoTeam == Team(FALSE, NoVal, NoRecord, NoVal, NoVal, NoVal)

TeamDirs ==
  {<<File(a), File(b)>> : a \in RunTeams, b \in RunTeams}
    \cup {<<BadFile(NoTeam), File(b)>> : b \in RunTeams}
    \cup {<<File(a), BadFile(NoTeam)>> : a \in RunTeams}

Complete(at) == Opp("inline", TRUE, 8000, <<10, 4, 2>>, 12, 3, at)

OppInit ==
  {SlugOpp,
   Opp("inline", FALSE, NoVal, NoRecord, NoVal, NoVal, NoVal),
   Opp("inline", TRUE, NoVal, NoRecord, NoVal, NoVal, NoVal),
   Complete(RunStart - 3 * 24),
   Complete(RunStart - 7 * 24),
   Complete(RunStart - 7 * 24 + 12),
   Opp("inline", TRUE, NoVal, <<10, 4, 2>>, 12, 3, RunStart - 24),
   Opp("inline", TRUE, 8000, NoRecord, 12, 3, RunStart - 24),
   Opp("inline", TRUE, 8000, <<10, 4, 2>>, 12, 3, NoVal)}

NoTournament == Tournament(NoVal, << >>)

TournDirs ==
  LET firsts == {Tournament(e, <<o1, Complete(RunStart - 3 * 24)>>) :
                   e \in {7, 9}, o1 \in OppInit}
      seconds == {Tournament(NoVal, <<o>>) : o \in {SlugOpp, Complete(RunStart - 7 * 24)}}
  IN  {<<File(a), File(b)>> : a \in firsts, b \in seconds}
        \cup {<<BadFile(NoTournament), File(b)>> : b \in seconds}
        \cup {<<File(a), BadFile(NoTournament)>> : a \in firsts}

InitRun ==
  /\ now = RunStart
  /\ call = NoCall
  /\ lastRun = NoRun
  /\ log = << >>
  /\ data = << >>
  /\ \/ /\ run \in {Running(s) : s \in {"teams-v1", "teams-v2", "append-ranks"}}
        /\ teams \in TeamDirs
        /\ hist \in {<<h, << >> >> : h \in {<< >>, <<Entry(8, 8000, NoVal, NoVal)>>}}
        /\ tourn = << >>
        /\ opts \in {Opts(FALSE, 7, FALSE, d) :
                       d \in IF run.script = "teams-v1" THEN BOOLEAN ELSE {FALSE}}
     \/ /\ run = Running("tournaments")
        /\ teams = << >>
        /\ hist = << >>
        /\ tourn \in TournDirs
        /\ opts \in {Opts(f, n, p, FALSE) : f \in BOOLEAN, n \in {3, 7}, p \in BOOLEAN}

\* The files main loops over.
NumFiles == IF run.script = "tournaments" THEN Len(tourn) ELSE Len(teams)

\* The wall clock advances while the run is under way.
TickRun ==
  /\ run.pc \in {"start", "file", "opp"}
  /\ now < RunStart + 12 * MaxTicks
  /\ now' = now + 12
  /\ UNCHANGED <<teams, hist, tourn, opts, run, data, lastRun, call, log>>

\* main up to its loop: the directory is listed; append-ranks takes today's
\* date once, the first team updater creates the history directory.
StartRun ==
  /\ run.pc = "start"
  /\ run' = [run EXCEPT !.pc = "file", !.fi = 1,
                        !.today = IF run.script = "append-ranks"
                                  THEN dateISO(now) ELSE NoVal]
  /\ IF run.script = "teams-v1"
     THEN \* fs.mkdir(HISTORY_DIR, {recursive: true}): creates the directory
          \* (1) unless it exists (0); it exists when it holds a history file.
          \E created \in {0, 1} :
            /\ (created = 1) => \A f \in DOMAIN hist : hist[f] = << >>
            /\ log' = log \o <<Ev("mkdir history", 0, created)>>
     ELSE log' = log
  /\ UNCHANGED <<now, teams, hist, tourn, opts, data, lastRun, call>>

\* main after its loop: normal completion.
FinishRun ==
  /\ run.pc = "file"
  /\ run.fi > NumFiles
  /\ run' = [run EXCEPT !.pc = "done", !.exit = 0]
  /\ UNCHANGED <<now, teams, hist, tourn, opts, data, lastRun, call, log>>

\* An error nothing catches: main().catch logs it and calls process.exit(1).
Crash(f) ==
  /\ run' = [run EXCEPT !.pc = "done", !.exit = 1]
  /\ log' = log \o <<Ev("read failed", f, 0)>>

\* First team updater, one turn of main's loop: updateTeam(f), then the delay.
Teams1Step ==
  /\ run.script = "teams-v1"
  /\ run.pc = "file"
  /\ run.fi <= NumFiles
  /\ LET f == run.fi
         team == teams[f].json
     IN  \/ \* readJson throws
            /\ ~teams[f].ok
            /\ Crash(f)
            /\ UNCHANGED <<teams, hist>>
         \/ \* no mhrUrl, skipping
            /\ teams[f].ok
            /\ ~team.mhrUrl
            /\ run' = [run EXCEPT !.fi = f + 1]
            /\ log' = log \o <<Ev("visit", f, 0), Ev("sleep", f, 1200)>>
            /\ UNCHANGED <<teams, hist>>
         \/ \* fetch error
            /\ teams[f].ok
            /\ team.mhrUrl
            /\ run' = [run EXCEPT !.fi = f + 1]
            /\ log' = log \o <<Ev("visit", f, 0), Ev("fetch", f, 0),
                               Ev("fetch failed", f, 0), Ev("sleep", f, 1200)>>
            /\ UNCHANGED <<teams, hist>>
         \/ /\ teams[f].ok
            /\ team.mhrUrl
            /\ \E page \in PagesRun :
                 LET res == updateTeam(team, hist[f], page, dateISO(now), opts.dryRun)
                 IN  /\ teams' = [teams EXCEPT ![f] = File(res.team)]
                     /\ hist' = [hist EXCEPT ![f] = res.hist]
                     /\ log' = log \o <<Ev("visit", f, 0), Ev("fetch", f, 0)>>
                                   \o WriteEvents(res, f)
                                   \o <<Ev("sleep", f, 1200)>>
            /\ run' = [run EXCEPT !.fi = f + 1]
  /\ UNCHANGED <<now, tourn, opts, data, lastRun, call>>

\* Second team updater, one turn of main's loop: updateOneTeam(f) and the
\* throttle inside try, the warning in catch.
Teams2Step ==
  /\ run.script = "teams-v2"
  /\ run.pc = "file"
  /\ run.fi <= NumFiles
  /\ LET f == run.fi
         team == teams[f].json
     IN  \/ \* invalid JSON, or no mhrUrl or id: skipped
            /\ ~teams[f].ok \/ ~team.mhrUrl
            /\ log' = log \o <<Ev("visit", f, 0), Ev("sleep", f, 300)>>
            /\ UNCHANGED teams
         \/ /\ teams[f].ok
            /\ team.mhrUrl
            /\ \E browser \in {Threw} \cup {Got(p) : p \in PagesRun},
                  legacy \in {Threw, NotOk} \cup {Got(p) : p \in PagesRun} :
                 LET fallback == emptyInfo(browser.page)
                     info == IF fallback THEN legacy.page ELSE browser.page
                     res == updateOneTeam(team, info, dateISO(now))
                     fetches == <<Ev("visit", f, 0), Ev("fetch", f, 0)>>
                                  \o (IF fallback THEN <<Ev("fetch", f, 0)>> ELSE << >>)
                 IN  IF fallback /\ legacy.kind = "throw"
                     THEN \* extractLegacy's fetch throws: main's catch
                          /\ log' = log \o fetches \o <<Ev("fetch failed", f, 0)>>
                          /\ UNCHANGED teams
                     ELSE /\ teams' = [teams EXCEPT ![f] = File(res.team)]
                          /\ log' = log \o fetches
                               \o (IF fallback /\ legacy.kind = "notok"
                                   THEN <<Ev("fetch failed", f, 0)>> ELSE << >>)
                               \o (IF res.changed THEN <<Ev("write team", f, 0)>>
                                   ELSE << >>)
                               \o <<Ev("sleep", f, 300)>>
  /\ run' = [run EXCEPT !.fi = run.fi + 1]
  /\ UNCHANGED <<now, hist, tourn, opts, data, lastRun, call>>

\* append-ranks-to-history, one turn of main's loop.
AppendStep ==
  /\ run.script = "append-ranks"
  /\ run.pc = "file"
  /\ run.fi <= NumFiles
  /\ LET f == run.fi
     IN  \/ \* readJson gives null and team.slug throws
            /\ ~teams[f].ok
            /\ Crash(f)
            /\ UNCHANGED hist
         \/ /\ teams[f].ok
            /\ hist' = [hist EXCEPT ![f] = appendRanks(teams[f].json, hist[f], run.today)]
            /\ log' = log \o <<Ev("visit", f, 0), Ev("write history", f, 0)>>
            /\ run' = [run EXCEPT !.fi = f + 1]
  /\ UNCHANGED <<now, teams, tourn, opts, data, lastRun, call>>

\* Tournament updater: updateFile(f) up to its loop over the opponents.
TournOpen ==
  /\ run.script = "tournaments"
  /\ run.pc = "file"
  /\ run.fi <= NumFiles
  /\ LET f == run.fi
     IN  \/ \* readJson throws
            /\ ~tourn[f].ok
            /\ Crash(f)
            /\ UNCHANGED data
         \/ \* Skip past tournaments unless explicitly included
            /\ tourn[f].ok
            /\ ~opts.includePast
            /\ isPast(tourn[f].json.endDate, now)
            /\ run' = [run EXCEPT !.fi = f + 1]
            /\ log' = log \o <<Ev("skip past", f, 0)>>
            /\ UNCHANGED data
         \/ /\ tourn[f].ok
            /\ opts.includePast \/ ~isPast(tourn[f].json.endDate, now)
            /\ data' = tourn[f].json.opponents
            /\ run' = [run EXCEPT !.pc = "opp", !.oi = 1, !.changed = FALSE]
            /\ log' = log \o <<Ev("open", f, 0)>>
  /\ UNCHANGED <<now, teams, hist, tourn, opts, lastRun, call>>

\* The fetch error rethrown instead of caught.
catchFetchError_Rethrow(f, i) ==
  /\ log' = log \o <<Ev("visit", f, i), Ev("fetch", f, i), Ev("fetch failed", f, i)>>
  /\ run' = [run EXCEPT !.pc = "done", !.exit = 1]
  /\ UNCHANGED data

\* updateFile's catch around getMhrText: warn and continue.
catchFetchError(f, i) ==
  /\ log' = log \o <<Ev("visit", f, i), Ev("fetch", f, i), Ev("fetch failed", f, i)>>
  /\ run' = [run EXCEPT !.oi = i + 1]
  /\ UNCHANGED data

\* Tournament updater: one turn of updateFile's loop, on opponent run.oi.
TournOpp ==
  /\ run.script = "tournaments"
  /\ run.pc = "opp"
  /\ run.oi <= Len(data)
  /\ LET f == run.fi
         i == run.oi
         opp == data[i]
     IN  \/ \* a slug, no mhrUrl, or cached and fresh: continue
            /\ skipsOpponent(opp, opts.force, opts.staleDays, now)
            /\ log' = log \o <<Ev("visit", f, i)>>
            /\ run' = [run EXCEPT !.oi = i + 1]
            /\ UNCHANGED data
         \/ \* fetch error: continue
            /\ ~skipsOpponent(opp, opts.force, opts.staleDays, now)
            /\ catchFetchError(f, i)
         \/ /\ ~skipsOpponent(opp, opts.force, opts.staleDays, now)
            /\ \E page \in PagesRun :
                 LET after == refreshOpponent(opp, page, now)
                 IN  /\ data' = [data EXCEPT ![i] = after]
                     /\ run' = [run EXCEPT !.oi = i + 1,
                                           !.changed = run.changed \/ after # opp]
                     /\ log' = log \o <<Ev("visit", f, i), Ev("fetch", f, i)>>
  /\ UNCHANGED <<now, teams, hist, tourn, opts, lastRun, call>>

\* TournClose writing the first opponent's update only.
TournClose_WritePartial ==
  /\ run.script = "tournaments"
  /\ run.pc = "opp"
  /\ run.oi > Len(data)
  /\ IF run.changed
     THEN /\ tourn' = [tourn EXCEPT ![run.fi] =
                         File([tourn[run.fi].json EXCEPT !.opponents[1] = data[1]])]
          /\ log' = log \o <<Ev("write tournament", run.fi, 0)>>
     ELSE UNCHANGED <<tourn, log>>
  /\ run' = [run EXCEPT !.pc = "file", !.fi = run.fi + 1, !.oi = 0, !.changed = FALSE]
  /\ data' = << >>
  /\ UNCHANGED <<now, teams, hist, opts, lastRun, call>>

\* Tournament updater: updateFile(f) after its loop: the write, if changed.
TournClose ==
  /\ run.script = "tournaments"
  /\ run.pc = "opp"
  /\ run.oi > Len(data)
  /\ IF run.changed
     THEN /\ tourn' = [tourn EXCEPT ![run.fi] =
                         File([tourn[run.fi].json EXCEPT !.opponents = data])]
          /\ log' = log \o <<Ev("write tournament", run.fi, 0)>>
     ELSE UNCHANGED <<tourn, log>>
  /\ run' = [run EXCEPT !.pc = "file", !.fi = run.fi + 1, !.oi = 0, !.changed = FALSE]
  /\ data' = << >>
  /\ UNCHANGED <<now, teams, hist, opts, lastRun, call>>

NextRun ==
  \/ TickRun
  \/ StartRun
  \/ FinishRun
  \/ Teams1Step
  \/ Teams2Step
  \/ AppendStep
  \/ TournOpen
  \/ TournOpp
  \/ TournClose

SpecRun == InitRun /\ [][NextRun]_vars

(***************************************************************************)
(* History series: claims C1 - C5 (specification Spec).                    *)
(***************************************************************************)
\* Days are counted from a Monday; the gated weekday is the Wednesday.
IsGatedDay(d) == d % 7 = 2

\* No tracked field available today differs from the last entry of series h.
NoTrackedChange(snap, h) ==
  /\ Len(h) > 0
  /\ snap.rating = NoVal \/ snap.rating = h[Len(h)].rating
  /\ snap.stateRank = NoVal \/ snap.stateRank = h[Len(h)].stateRank
  /\ snap.nationalRank = NoVal \/ snap.nationalRank = h[Len(h)].nationalRank

\* Entry e carries every value the run had for today.
Carries(e, snap) ==
  /\ snap.rating # NoVal => e.rating = snap.rating
  /\ snap.stateRank # NoVal => e.stateRank = snap.stateRank
  /\ snap.nationalRank # NoVal => e.nationalRank = snap.nationalRank

\* C1: after any sequence of runs of updateTeam and of append-ranks main, a
\* history series holds at most one entry per calendar date.
C1_OneEntryPerDate ==
  \A f \in DOMAIN hist : \A d \in 0..MaxDay : CountDate(hist[f], d) <= 1

\* C2: a history-writing run that finds no tracked field (rating, stateRank,
\* nationalRank) different from the last known value in the series leaves the
\* series as it was and performs no write of the history file.
C2_NoChangeNoWrite ==
  [][\A f \in DOMAIN hist :
       (lastRun'.outcome = "ran" /\ NoTrackedChange(lastRun'.snap, hist[f]))
         => (hist'[f] = hist[f]
             /\ \A k \in DOMAIN log' : log'[k][1] # "write history")]_vars

\* C3: appending the same snapshot a second time on the same calendar day is
\* idempotent: the second run leaves the series equal to what the first run
\* left, so it adds no entry for the day.
C3_SameDayIdempotent ==
  [][lastRun'.repeat => hist' = hist]_vars

C3_Witness ==
  /\ lastRun.repeat
  /\ CountDate(hist[1], today) = 1
  /\ Len(hist[1]) >= 2

\* C4: on the gated weekday a history run always leaves the series with exactly
\* one entry dated today, carrying today's values, also when no tracked value
\* changed and when no rating is available today.
C4_GatedDayEntry ==
  \A f \in DOMAIN hist :
    (lastRun.outcome = "ran" /\ IsGatedDay(today))
      => /\ CountDate(hist[f], today) = 1
         /\ \A i \in DOMAIN hist[f] :
              hist[f][i].date = today => Carries(hist[f][i], lastRun.snap)

\* C5: with run dates that never decrease, a series that starts empty or sorted
\* by date stays ordered oldest-first: every entry's date is less than or equal
\* to the date of the entry after it.
C5_SortedByDate ==
  \A f \in DOMAIN hist :
    \A i \in 1..(Len(hist[f]) - 1) : hist[f][i].date <= hist[f][i + 1].date

C5_Witness ==
  /\ lastRun.outcome = "ran"
  /\ Len(hist[1]) >= 3
  /\ hist[1][1].date < hist[1][2].date
  /\ hist[1][2].date < hist[1][3].date

(***************************************************************************)
(* Freshness policy and error handling: claims C6 - C10 (SpecRun).         *)
(***************************************************************************)
InLog(l, e) == \E k \in DOMAIN l : l[k] = e

\* The step is a turn of updateFile's loop, on opponent run.oi of file run.fi.
ConsiderStep == run.pc = "opp" /\ run'.pc = "opp" /\ run'.oi = run.oi + 1

\* An inline opponent object with an mhrUrl.
HasUrl(opp) == opp.kind = "inline" /\ opp.mhrUrl

\* An opponent with a timestamp, a numeric rating and a record.
IsComplete(opp) ==
  /\ opp.updatedFromMHRAt # NoVal
  /\ opp.rating # NoVal
  /\ opp.record # NoRecord

FileDone(f) == run.fi > f

\* C7, as claimed: with --force the updater fetches every inline opponent
\* object that has an mhrUrl, of every tournament file updateFile has been
\* through.
C7_ForceFetchesAll ==
  (run.script = "tournaments" /\ opts.force)
    => \A f \in DOMAIN tourn :
         (tourn[f].ok /\ FileDone(f))
           => \A i \in DOMAIN tourn[f].json.opponents :
                HasUrl(tourn[f].json.opponents[i]) => InLog(log, Ev("fetch", f, i))

\* C7, amended: with --force the updater fetches every inline opponent object
\* that has an mhrUrl, of every tournament file updateFile has been through
\* and did not skip as past (end date before today, without --include-past).
C7_ForceFetchesUnlessPast ==
  (run.script = "tournaments" /\ opts.force)
    => \A f \in DOMAIN tourn :
         (tourn[f].ok /\ FileDone(f) /\ ~InLog(log, Ev("skip past", f, 0)))
           => \A i \in DOMAIN tourn[f].json.opponents :
                HasUrl(tourn[f].json.opponents[i]) => InLog(log, Ev("fetch", f, i))

\* A forced run is over; it fetched an opponent refreshed 3 days before.
C7_Witness ==
  /\ run.script = "tournaments"
  /\ run.pc = "done"
  /\ opts.force
  /\ opts.staleDays = 7
  /\ tourn[1].ok
  /\ now - tourn[1].json.opponents[2].updatedFromMHRAt < 7 * 24
  /\ InLog(log, Ev("fetch", 1, 2))

FetchFailedStep ==
  /\ Len(log') > Len(log)
  /\ \E k \in (Len(log) + 1)..Len(log') : log'[k][1] = "fetch failed"

\* Every entity of the run has had its turn: each team file, each opponent of
\* each tournament not skipped as past.
AllProcessed ==
  IF run.script = "tournaments"
  THEN \A f \in DOMAIN tourn :
         \/ InLog(log, Ev("skip past", f, 0))
         \/ \A i \in DOMAIN tourn[f].json.opponents : InLog(log, Ev("visit", f, i))
  ELSE \A f \in DOMAIN teams : InLog(log, Ev("visit", f, 0))

\* C9: when the fetch of an entity fails, its stored fields (its timestamp too)
\* stay as they were and the run goes on to the next entity; a run ends with a
\* status other than 0 only on a file it could not read, and a run that ends
\* with status 0 has processed every entity.
C9_FetchFailureRecovered ==
  /\ [][FetchFailedStep
          => /\ teams' = teams
             /\ hist' = hist
             /\ tourn' = tourn
             /\ data' = data
             /\ run'.exit = NoVal
             /\ run'.pc = run.pc
             /\ (run'.fi = run.fi + 1 \/ run'.oi = run.oi + 1)]_vars
  /\ [](run.pc = "done"
          => /\ run.exit # 0 => log[Len(log)][1] = "read failed"
             /\ run.exit = 0 => AllProcessed)

\* A run ended with status 0 after a failed fetch and a later successful one.
C9_Witness ==
  /\ run.pc = "done"
  /\ run.exit = 0
  /\ \E k \in DOMAIN log :
       /\ log[k][1] = "fetch failed"
       /\ \E m \in DOMAIN log :
            /\ m > k
            /\ log[m][1] \in {"write team", "write tournament"}

\* File f of the run's directory is readable JSON.
Readable(f) ==
  IF run.script = "tournaments" THEN tourn[f].ok ELSE teams[f].ok

\* The run came to file f.
CameTo(f) ==
  \E k \in DOMAIN log :
    log[k][2] = f /\ log[k][1] \in {"visit", "open", "skip past"}

\* C10: a run skips an unreadable or malformed entity file, still processes
\* every other entity file, and does not end with a non-zero status for it.
C10_MalformedFileSkipped ==
  run.pc = "done"
    => /\ run.exit = 0
       /\ \A f \in 1..NumFiles : Readable(f) => CameTo(f)

(***************************************************************************)
(* Writes, delays and flags: claims C11 - C13 (SpecRun).                   *)
(***************************************************************************)
\* The number of events e in the log.
CountEv(e) == Cardinality({k \in DOMAIN log : log[k] = e})

\* The step is updateFile(f) leaving its loop over the opponents.
TournWriteStep(f) ==
  /\ run.pc = "opp"
  /\ run.fi = f
  /\ run.oi > Len(data)
  /\ run'.pc = "file"

\* C11: in one run each tournament or team JSON file is written at most once;
\* a tournament file changes only in the step after its loop over all the
\* opponents, and takes every update computed in the loop; a team file changes
\* only in the one step that processes it; so up to that step (a failure
\* before it included) the file is as it was before the run.
C11_OneWriteAfterAllUpdates ==
  /\ [][\A f \in DOMAIN tourn :
          tourn'[f] # tourn[f]
            => /\ TournWriteStep(f)
               /\ tourn'[f].json.opponents = data
               /\ ~InLog(log, Ev("write tournament", f, 0))
               /\ InLog(log', Ev("write tournament", f, 0))]_vars
  /\ [][\A f \in DOMAIN teams :
          teams'[f] # teams[f]
            => /\ run.pc = "file"
               /\ run.fi = f
               /\ run'.fi = f + 1
               /\ ~InLog(log, Ev("write team", f, 0))
               /\ InLog(log', Ev("write team", f, 0))]_vars
  /\ [](\A f \in 1..NumFiles :
          /\ CountEv(Ev("write tournament", f, 0)) <= 1
          /\ CountEv(Ev("write team", f, 0)) <= 1)

\* File 1 was written after both of its opponents were fetched, the second
\* fetch having failed.
C11_Witness ==
  \E a, b, c \in DOMAIN log :
    /\ a < b
    /\ b < c
    /\ log[a] = Ev("fetch", 1, 1)
    /\ log[b] = Ev("fetch failed", 1, 2)
    /\ log[c] = Ev("write tournament", 1, 0)
    /\ tourn[1].json.opponents[1].updatedFromMHRAt >= RunStart
    /\ tourn[1].json.opponents[2].updatedFromMHRAt < RunStart

\* C12: between two requests of one run for different entities (opponents of a
\* tournament, teams), the driver has waited a politeness delay, also when the
\* processing of the earlier entity failed.
C12_DelayBetweenRequests ==
  \A a, b \in DOMAIN log :
    (/\ a < b
     /\ log[a][1] = "fetch"
     /\ log[b][1] = "fetch"
     /\ <<log[a][2], log[a][3]>> # <<log[b][2], log[b][3]>>)
      => \E k \in DOMAIN log : a < k /\ k < b /\ log[k][1] = "sleep"

\* C13: with --dry-run a run of the first team updater performs no write: it
\* writes no team file and no history file and creates no directory.
C13_DryRunWritesNothing ==
  (run.script = "teams-v1" /\ opts.dryRun)
    => \A k \in DOMAIN log :
         /\ log[k][1] \notin {"write team", "write history"}
         /\ log[k] # Ev("mkdir history", 0, 1)

(***************************************************************************)
(* scripts/lib/schedule-normalize.mjs.  A string is the sequence of its    *)
(* words, which single blanks separate: what title.replace(/\s+/g, " ")    *)
(* .trim() leaves.                                                         *)
(***************************************************************************)
\* The longest title, in words.
MaxTitle == 4

Words == {"Chesterfield", "12U", "Bears", "BEARS", "vs", "VS.", "@", "(H)"}

SelfNames == {<<"Chesterfield">>, <<"Chesterfield", "12U">>}

RECURSIVE SeqsUpTo(_, _)
\* The sequences over S of length at most n.
SeqsUpTo(S, n) ==
  IF n = 0 THEN {<< >>}
  ELSE LET shorter == SeqsUpTo(S, n - 1)
       IN  shorter \cup {Append(q, w) : q \in shorter, w \in S}

Titles == SeqsUpTo(Words, MaxTitle)

\* String.prototype.toLowerCase, on a word.
toLowerCase(w) ==
  CASE w = "Chesterfield" -> "chesterfield"
    [] w = "12U" -> "12u"
    [] w = "Bears" -> "bears"
    [] w = "BEARS" -> "bears"
    [] w = "VS." -> "vs."
    [] w = "(H)" -> "(h)"
    [] w = "H)" -> "h)"
    [] w = "Illinois" -> "illinois"
    [] w = "Missouri" -> "missouri"
    [] w = "IN" -> "in"
    [] w = "MO" -> "mo"
    [] OTHER -> w

lower(str) == [k \in DOMAIN str |-> toLowerCase(str[k])]

\* String.prototype.includes.
includes(str, sub) ==
  \E k \in 0..(Len(str) - Len(sub)) :
    \A j \in 1..Len(sub) : str[k + j] = sub[j]

\* The word has a word character (\w), so that \b matches inside it.
hasWordChar(w) == w # "@"

\* The word from its first word character on.
fromWordChar(w) == IF w = "(H)" THEN "H)" ELSE w

\* The words \s+vs\.?\s+ and \s+@\s+ match under the i flag, lowercased.
VsWords == {"vs", "vs."}
AtWords == {"@"}

MinOf(S) == CHOOSE x \in S : \A y \in S : x <= y

\* /\b(.+?)\s+SEP\s+(.+?)$/i.exec(t): the captures <<a, b>>, or << >> when
\* the expression does not match.  The match starts at the first \b of t; a,
\* lazy, ends before the first separator that leaves a word for b.
execSep(t, sepWords) ==
  LET starts == {k \in DOMAIN t : hasWordChar(t[k])}
  IN  IF starts = {} THEN << >>
      ELSE LET st == MinOf(starts)
               seps == {k \in DOMAIN t :
                          k > st /\ k < Len(t) /\ toLowerCase(t[k]) \in sepWords}
           IN  IF seps = {} THEN << >>
               ELSE LET k == MinOf(seps)
                    IN  << <<fromWordChar(t[st])>> \o SubSeq(t, st + 1, k - 1),
                           SubSeq(t, k + 1, Len(t)) >>

\* t.replace(new RegExp(selfName, "i"), ""): the first occurrence removed.
removeFirst(t, selfName) ==
  LET hits == {k \in 0..(Len(t) - Len(selfName)) :
                 \A j \in 1..Len(selfName) :
                   toLowerCase(t[k + j]) = toLowerCase(selfName[j])}
  IN  IF hits = {} THEN t
      ELSE LET k == MinOf(hits)
           IN  SubSeq(t, 1, k) \o SubSeq(t, k + Len(selfName) + 1, Len(t))

Side(opponent, homeAway) == [opponent |-> opponent, homeAway |-> homeAway]

parseOpponent(title, selfName) ==
  LET t == title
      vs == execSep(t, VsWords)
      at == execSep(t, AtWords)
      self == lower(selfName)
      cleaned == removeFirst(t, selfName)
  IN  IF vs # << >>
      THEN IF includes(lower(vs[1]), self) THEN Side(vs[2], "Home")
           ELSE IF includes(lower(vs[2]), self) THEN Side(vs[1], "Away")
           ELSE Side(vs[2], "Neutral")
      ELSE IF at # << >>
      THEN IF includes(lower(at[1]), self) THEN Side(at[2], "Away")
           ELSE IF includes(lower(at[2]), self) THEN Side(at[1], "Home")
           ELSE Side(at[2], "Neutral")
      ELSE Side(IF cleaned = << >> THEN <<"TBD">> ELSE cleaned, "Neutral")

\* A raw calendar event: its start (an instant in hours, or none) and title.
RawEvent(start, title) == [start |-> start, title |-> title]

\* normalizeEvent: the Game shape (date, time, opponent, homeAway, source).
\* The date is the UTC day of the start, day 0 (1970-01-01) without a start;
\* the time is the UTC hour of the start, undefined without one.
normalizeEvent(ev, selfName, source) ==
  LET side == parseOpponent(ev.title, selfName)
  IN  [date |-> IF ev.start # NoVal THEN dateISO(ev.start) ELSE 0,
       time |-> IF ev.start # NoVal THEN ev.start % 24 ELSE NoVal,
       opponent |-> side.opponent,
       homeAway |-> side.homeAway,
       source |-> source]

\* gameDedupKey: [date, time || "", opponent lowercased, source || ""] joined
\* by "|"; an undefined time stays the one value no time of day is equal to.
gameDedupKey(g) ==
  <<g.date, g.time, lower(g.opponent), g.source>>

EventTitles ==
  {<<"Bears", "@", "Chesterfield">>, <<"BEARS", "vs", "Chesterfield">>,
   <<"Chesterfield", "vs", "Bears">>, <<"Chesterfield", "@", "BEARS">>}

RawEvents == {RawEvent(st, ti) : st \in {NoVal, 18, 43}, ti \in EventTitles}

Sources == {"ics", "manual"}

InitSched ==
  /\ now = 0
  /\ teams = << >>
  /\ hist = << >>
  /\ tourn = << >>
  /\ opts = Opts(FALSE, 7, FALSE, FALSE)
  /\ run = Idle
  /\ data = << >>
  /\ lastRun = NoRun
  /\ log = << >>
  /\ call = NoCall

\* normalizeEvent calls parseOpponent on a title.
CallParseOpponent ==
  /\ call = NoCall
  /\ \E title \in Titles, selfName \in SelfNames :
       call' = [fn |-> "parseOpponent", title |-> title, selfName |-> selfName,
                res |-> parseOpponent(title, selfName)]
  /\ UNCHANGED <<now, teams, hist, tourn, opts, run, data, lastRun, log>>

\* Two raw events are normalized and their keys taken, as a merge does.
CallGameDedupKey ==
  /\ call = NoCall
  /\ \E e1 \in RawEvents, e2 \in RawEvents, s1 \in Sources, s2 \in Sources :
       LET g == normalizeEvent(e1, <<"Chesterfield">>, s1)
           h == normalizeEvent(e2, <<"Chesterfield">>, s2)
       IN  call' = [fn |-> "gameDedupKey", g |-> g, h |-> h,
                    res |-> <<gameDedupKey(g), gameDedupKey(h)>>]
  /\ UNCHANGED <<now, teams, hist, tourn, opts, run, data, lastRun, log>>

\* The caller has taken the result.
ReturnSched ==
  /\ call # NoCall
  /\ call' = NoCall
  /\ UNCHANGED <<now, teams, hist, tourn, opts, run, data, lastRun, log>>

NextSched ==
  \/ CallParseOpponent
  \/ CallGameDedupKey
  \/ ReturnSched

SpecSched == InitSched /\ [][NextSched]_vars

(***************************************************************************)
(* Schedule normalization: claims C14 - C16 (SpecSched).                   *)
(***************************************************************************)
\* C14: two normalized games with the same date, the same time and the same
\* opponent (compared case-insensitively) that differ only in their source
\* have the same deduplication key.
C14_SameKeyAcrossSources ==
  (/\ call.fn = "gameDedupKey"
   /\ call.g.date = call.h.date
   /\ call.g.time = call.h.time
   /\ lower(call.g.opponent) = lower(call.h.opponent)
   /\ call.g.homeAway = call.h.homeAway
   /\ call.g.source # call.h.source)
    => call.res[1] = call.res[2]

\* The title has the form "<A> SEP <B>": a separator word with at least one
\* word before it and one after it.
HasSep(t, sepWords) == \E k \in 2..(Len(t) - 1) : toLowerCase(t[k]) \in sepWords

\* The string names something: it has a letter or a digit.
IsName(str) == \E k \in DOMAIN str : hasWordChar(str[k])

\* A and B: the title before and after its first separator.
PartA(t, sepWords) ==
  SubSeq(t, 1, MinOf({k \in 2..(Len(t) - 1) : toLowerCase(t[k]) \in sepWords}) - 1)

PartB(t, sepWords) ==
  SubSeq(t, MinOf({k \in 2..(Len(t) - 1) : toLowerCase(t[k]) \in sepWords}) + 1, Len(t))

\* C15: for every title "<A> vs <B>" (A and B names), parseOpponent returns B, Home when A
\* contains the self name (case-insensitively), A, Away when only B contains
\* it, and B, Neutral when neither does; the opponent is the whole of A or B,
\* and the vs rule applies also when the title has an @ separator.
C15_VsRule ==
  (/\ call.fn = "parseOpponent"
   /\ HasSep(call.title, VsWords)
   /\ IsName(PartA(call.title, VsWords))
   /\ IsName(PartB(call.title, VsWords)))
    => LET a == PartA(call.title, VsWords)
           b == PartB(call.title, VsWords)
           self == lower(call.selfName)
       IN  call.res = IF includes(lower(a), self) THEN Side(b, "Home")
                      ELSE IF includes(lower(b), self) THEN Side(a, "Away")
                      ELSE Side(b, "Neutral")

\* C16: for every title "<A> @ <B>" (A and B names) without a vs separator, parseOpponent
\* returns B, Away when A contains the self name, A, Home when only B contains
\* it, and B, Neutral when neither does.
C16_AtRule ==
  (/\ call.fn = "parseOpponent"
   /\ HasSep(call.title, AtWords)
   /\ ~HasSep(call.title, VsWords)
   /\ IsName(PartA(call.title, AtWords))
   /\ IsName(PartB(call.title, AtWords)))
    => LET a == PartA(call.title, AtWords)
           b == PartB(call.title, AtWords)
           self == lower(call.selfName)
       IN  call.res = IF includes(lower(a), self) THEN Side(b, "Away")
                      ELSE IF includes(lower(b), self) THEN Side(a, "Home")
                      ELSE Side(b, "Neutral")

(***************************************************************************)
(* The page parsers.  A normalized text is the sequence of its words and   *)
(* numbers; a label's colon goes with its word ("Rating:" is Rating), and  *)
(* the numbers of a text are decimals of at most three integer digits, in  *)
(* hundredths (86.07 is 8607).                                             *)
(***************************************************************************)
\* The longest text put before the phrase a claim is about, in words.
MaxPre == 3

W(word) == [w |-> word, v |-> NoVal]
N(v) == [w |-> "num", v |-> v]

isNum(tok) == tok.w = "num"

\* text.match: the leftmost of the positions at which an expression matches,
\* or 0 when it matches nowhere.
firstMatch(hits) == IF hits = {} THEN 0 ELSE MinOf(hits)

\* <label words> [:\s]+ <number> at position i; the number is n words on.
labeled(text, i, words) ==
  /\ i + Len(words) <= Len(text)
  /\ \A j \in 1..Len(words) : text[i + j - 1].w = words[j]
  /\ isNum(text[i + Len(words)])

\* The positions of text at which <label words> [:\s]+ <number> matches.
labelHits(text, words) == {i \in DOMAIN text : labeled(text, i, words)}

\* text.match(rx) for the first expression of rxes that matches: the number
\* after the label, or undefined.
matchLabels(text, rxes) ==
  LET ok == {r \in DOMAIN rxes : firstMatch(labelHits(text, rxes[r])) # 0}
  IN  IF ok = {} THEN NoVal
      ELSE LET words == rxes[MinOf(ok)]
               i == firstMatch(labelHits(text, words))
           IN  text[i + Len(words)].v

\* parseRating of the tournament updater and of the second team updater.
parseRating(text) ==
  matchLabels(text, << <<"MHR", "Rating">>, <<"Power", "Rating">>, <<"Rating">> >>)

\* findRating of the first team updater: the labels, then the first float
\* between 50 and 120.
findRating(text) ==
  LET m == matchLabels(text, << <<"Rating">>, <<"MHR", "Rating">>, <<"Team", "Rating">> >>)
      \* a float of two or three integer digits, between 50 and 120
      i == firstMatch({k \in DOMAIN text :
                         /\ isNum(text[k])
                         /\ text[k].v >= 1000
                         /\ text[k].v >= 5000
                         /\ text[k].v <= 12000})
  IN  IF m # NoVal THEN m
      ELSE IF i # 0 THEN text[i].v ELSE NoVal

\* findRating of lib/mhr-parse.mjs on a text without markup: the labels, then
\* the first float.
findRatingLib(text) ==
  LET m == matchLabels(text, << <<"Rating">>, <<"MHR", "Rating">>, <<"Team", "Rating">> >>)
      i == firstMatch({k \in DOMAIN text : isNum(text[k])})
  IN  IF m # NoVal THEN m
      ELSE IF i # 0 THEN text[i].v ELSE NoVal

RatingToks == {W("MHR"), W("Power"), W("Rating"), W("of"), N(8607), N(9250), N(0)}

MhrRating8607 == <<W("MHR"), W("Rating"), N(8607)>>

RatingTexts ==
  {pre \o mid \o suf : pre \in SeqsUpTo(RatingToks, MaxPre),
                       mid \in {<< >>, MhrRating8607},
                       suf \in SeqsUpTo(RatingToks, 1)}

InitParse ==
  /\ now = 0
  /\ teams = << >>
  /\ hist = << >>
  /\ tourn = << >>
  /\ opts = Opts(FALSE, 7, FALSE, FALSE)
  /\ run = Idle
  /\ data = << >>
  /\ lastRun = NoRun
  /\ log = << >>
  /\ call = NoCall

CallParseRating ==
  /\ call = NoCall
  /\ \E text \in RatingTexts :
       call' = [fn |-> "parseRating", text |-> text, res |-> parseRating(text)]
  /\ UNCHANGED <<now, teams, hist, tourn, opts, run, data, lastRun, log>>

CallFindRating ==
  /\ call = NoCall
  /\ \E text \in RatingTexts :
       call' = [fn |-> "findRating", text |-> text, res |-> findRating(text)]
  /\ UNCHANGED <<now, teams, hist, tourn, opts, run, data, lastRun, log>>

CallFindRatingLib ==
  /\ call = NoCall
  /\ \E text \in RatingTexts :
       call' = [fn |-> "findRatingLib", text |-> text, res |-> findRatingLib(text)]
  /\ UNCHANGED <<now, teams, hist, tourn, opts, run, data, lastRun, log>>

\* An ordinal: "3rd" is O(3).
O(n) == [w |-> "ord", v |-> n]

\* STATE_NAMES and STATE_ABBRS in their iteration order, which is the order of
\* the STATES table; of its 51 entries, those a text of the model can name.
STATE_NAMES == <<"illinois", "missouri">>
STATE_ABBRS == <<"IN", "MO">>

\* LEVEL_RX of the tournament updater, \d{1,2}U, and the level of the second
\* team updater, 12U.
AnyLevel == {"12U", "14U"}
Only12U == {"12U"}

\* (\d+)(?:st|nd|rd|th)\s+REGION\s+LEVEL\b under the i flag, at position i.
rankPhrase(text, i, region, levels) ==
  /\ i + 2 <= Len(text)
  /\ text[i].w = "ord"
  /\ toLowerCase(text[i + 1].w) = toLowerCase(region)
  /\ text[i + 2].w \in levels

\* A word of letters, which the label of the loose expression can hold.
isLabelWord(tok) == tok.w \notin {"ord", "num", "12U", "14U", "- A1"}

\* The loose expression at position i: an ordinal, a label of one or more
\* words, a level.
loosePhrase(text, i, levels) ==
  /\ text[i].w = "ord"
  /\ \E k \in (i + 2)..Len(text) :
       /\ text[k].w \in levels
       /\ \A j \in (i + 1)..(k - 1) : isLabelWord(text[j])

\* The loops of parseStateRank over the regions in order, each with its own
\* expression and text.match, then the loose fallback (no label of the model
\* is USA).
rankHits(text, region, levels) ==
  {i \in DOMAIN text : rankPhrase(text, i, region, levels)}

stateRank(text, regions, levels) ==
  LET ok == {r \in DOMAIN regions : firstMatch(rankHits(text, regions[r], levels)) # 0}
      loose == firstMatch({i \in DOMAIN text : loosePhrase(text, i, levels)})
  IN  IF ok # {}
      THEN text[firstMatch(rankHits(text, regions[MinOf(ok)], levels))].v
      ELSE IF loose # 0 THEN text[loose].v ELSE NoVal

\* parseStateRank(text, hints) of the tournament updater.
parseStateRank(text, hints) ==
  stateRank(text, STATE_NAMES \o STATE_ABBRS \o hints, AnyLevel)

\* parseStateRank(text, team) of the second team updater; hints are the
\* team's state, mhrState, region and division.
parseStateRankTeam(text, hints) ==
  stateRank(text, STATE_NAMES \o STATE_ABBRS \o hints, Only12U)

StateToks == {O(5), W("Illinois"), W("in"), W("MO"), W("12U"), W("14U"), W("of")}

Third_Missouri_12U_A1 == <<O(3), W("Missouri"), W("12U"), W("- A1")>>

StateTexts ==
  {pre \o mid \o suf : pre \in SeqsUpTo(StateToks, MaxPre),
                       mid \in {<< >>, Third_Missouri_12U_A1},
                       suf \in SeqsUpTo(StateToks, 1)}

Hints == {<<"Missouri">>, <<"MO">>}

CallParseStateRank ==
  /\ call = NoCall
  /\ \E text \in StateTexts, hints \in Hints :
       call' = [fn |-> "parseStateRank", text |-> text, hints |-> hints,
                res |-> parseStateRank(text, hints)]
  /\ UNCHANGED <<now, teams, hist, tourn, opts, run, data, lastRun, log>>

CallParseStateRankTeam ==
  /\ call = NoCall
  /\ \E text \in StateTexts, hints \in Hints :
       call' = [fn |-> "parseStateRankTeam", text |-> text, hints |-> hints,
                res |-> parseStateRankTeam(text, hints)]
  /\ UNCHANGED <<now, teams, hist, tourn, opts, run, data, lastRun, log>>

\* A record in a text: "10-4-2" is T3(10, 4, 2), "10-4" is T2(10, 4); the
\* counts have at most two digits.
T3(wins, losses, ties) == [w |-> "rec3", v |-> wins * 10000 + losses * 100 + ties]
T2(wins, losses) == [w |-> "rec2", v |-> wins * 100 + losses]

\* The record a token spells, as the sequence of its counts.
recOf(tok) ==
  IF tok.w = "rec3" THEN <<tok.v \div 10000, (tok.v \div 100) % 100, tok.v % 100>>
  ELSE <<tok.v \div 100, tok.v % 100>>

\* Overall( Record)?, Season( Record)? or Record, then [:\s]+ and W-L-T, at i.
labeledTriple(text, i) ==
  \/ /\ i + 1 <= Len(text)
     /\ text[i].w \in {"Overall", "Season", "Record"}
     /\ text[i + 1].w = "rec3"
  \/ /\ i + 2 <= Len(text)
     /\ text[i].w \in {"Overall", "Season"}
     /\ text[i + 1].w = "Record"
     /\ text[i + 2].w = "rec3"

\* Games played.
games(rec) == rec[1] + rec[2] + rec[3]

\* parseRecord: the labeled triple, else the plausible triple with the most
\* games played (the first of them: the sort is stable).
parseRecord(text) ==
  LET i == firstMatch({k \in DOMAIN text : labeledTriple(text, k)})
      plausible == {k \in DOMAIN text :
                      /\ text[k].w = "rec3"
                      /\ \A j \in 1..3 : recOf(text[k])[j] <= 200
                      /\ games(recOf(text[k])) > 0}
      best == {k \in plausible :
                 \A j \in plausible : games(recOf(text[j])) <= games(recOf(text[k]))}
  IN  IF i # 0
      THEN recOf(IF text[i + 1].w = "rec3" THEN text[i + 1] ELSE text[i + 2])
      ELSE IF plausible # {} THEN recOf(text[MinOf(best)])
      ELSE NoRecord

\* W-L(-T?): [0-9]{1,3}-[0-9]{1,3}(?:-[0-9]{1,3})?
isWL(tok) == tok.w \in {"rec2", "rec3"}

\* findRecord of the first team updater, and of lib/mhr-parse.mjs on a text
\* without markup: (?:Record|Overall) and W-L(-T?), else the first W-L(-T?).
findRecord(text) ==
  LET i == firstMatch({k \in DOMAIN text :
                         /\ k + 1 <= Len(text)
                         /\ text[k].w \in {"Record", "Overall"}
                         /\ isWL(text[k + 1])})
      j == firstMatch({k \in DOMAIN text : isWL(text[k])})
  IN  IF i # 0 THEN recOf(text[i + 1])
      ELSE IF j # 0 THEN recOf(text[j])
      ELSE NoRecord

RecordToks == {W("Record"), W("Season"), W("of"), T3(10, 4, 2), T3(3, 1, 0), T2(10, 4)}

RecordTexts == SeqsUpTo(RecordToks, MaxPre)

\* A team and an inline opponent without a record, to be refreshed.
BareTeam == Team(TRUE, NoVal, NoRecord, NoVal, NoVal, NoVal)
BareOpp == Opp("inline", TRUE, NoVal, NoRecord, NoVal, NoVal, NoVal)

\* updateTeam, and the first tournament updater, write what findRecord found.
CallFindRecord ==
  /\ call = NoCall
  /\ \E text \in RecordTexts :
       LET record == findRecord(text)
           page == Page(NoVal, record, NoVal, NoVal)
       IN  call' = [fn |-> "findRecord", text |-> text, res |-> record,
                    written |-> {updateTeam(BareTeam, << >>, page, 0, FALSE).team.record,
                                 refreshOpponent(BareOpp, page, 0).record}]
  /\ UNCHANGED <<now, teams, hist, tourn, opts, run, data, lastRun, log>>

\* updateOneTeam and updateFile write what parseRecord found.
CallParseRecord ==
  /\ call = NoCall
  /\ \E text \in RecordTexts :
       LET record == parseRecord(text)
           page == Page(NoVal, record, NoVal, NoVal)
       IN  call' = [fn |-> "parseRecord", text |-> text, res |-> record,
                    written |-> {updateOneTeam(BareTeam, page, 0).team.record,
                                 refreshOpponent(BareOpp, page, 0).record}]
  /\ UNCHANGED <<now, teams, hist, tourn, opts, run, data, lastRun, log>>

\* The caller has taken the result.
ReturnParse ==
  /\ call # NoCall
  /\ call' = NoCall
  /\ UNCHANGED <<now, teams, hist, tourn, opts, run, data, lastRun, log>>

NextParse ==
  \/ CallParseRating
  \/ CallFindRating
  \/ CallFindRatingLib
  \/ CallParseStateRank
  \/ CallParseStateRankTeam
  \/ CallFindRecord
  \/ CallParseRecord
  \/ ReturnParse

SpecParse == InitParse /\ [][NextParse]_vars

(***************************************************************************)
(* Parsers: claims C17 - C19 (SpecParse).                                  *)
(***************************************************************************)
\* The text has "MHR Rating: 86.07", and no MHR Rating label with another
\* number.
HasMhrRating8607(text) ==
  /\ \E i \in DOMAIN text : labeled(text, i, <<"MHR", "Rating">>) /\ text[i + 2].v = 8607
  /\ \A i \in DOMAIN text : labeled(text, i, <<"MHR", "Rating">>) => text[i + 2].v = 8607

\* C17: for every normalized text that contains "MHR Rating: 86.07", whatever
\* other rating labels or decimal numbers come before or after it, each
\* rating parser returns 86.07.
C17_MhrRatingWins ==
  (call.fn \in {"parseRating", "findRating", "findRatingLib"}
     /\ HasMhrRating8607(call.text))
    => call.res = 8607

\* The text has the phrase at some position.
HasPhrase(text, phrase) ==
  \E k \in 0..(Len(text) - Len(phrase)) :
    \A j \in 1..Len(phrase) : text[k + j] = phrase[j]

\* C18: for every text that contains "3rd Missouri 12U - A1" and no USA
\* phrase, the state-rank parser called with hint "Missouri" or "MO" returns
\* 3, whatever other ordinal and level phrases or words equal to a region
\* abbreviation the text contains.
C18_MissouriThird ==
  (/\ call.fn \in {"parseStateRank", "parseStateRankTeam"}
   /\ HasPhrase(call.text, Third_Missouri_12U_A1))
    => call.res = 3

\* C19: every record value the refresh pipeline writes into a team or an
\* inline opponent is a string of exactly three dash-separated non-negative
\* integers, W-L-T.
C19_RecordIsWLT ==
  call.fn \in {"findRecord", "parseRecord"}
    => \A rec \in call.written :
         rec # NoRecord => (Len(rec) = 3 /\ \A j \in 1..3 : rec[j] >= 0)

(***************************************************************************)
(* The team file's lastUpdated: claim C20 (SpecRun).                       *)
(***************************************************************************)
\* C20: for a team that has an mhrUrl, a run of the team updater (not a dry
\* run) that has fetched the team's page successfully leaves the team file's
\* lastUpdated equal to the date of the run, whether or not rating, record or
\* ranks changed.
C20_LastUpdatedIsRunDate ==
  (run.script \in {"teams-v1", "teams-v2"} /\ ~opts.dryRun)
    => \A f \in DOMAIN teams :
         (/\ teams[f].ok
          /\ teams[f].json.mhrUrl
          /\ run.fi > f
          /\ InLog(log, Ev("fetch", f, 0))
          /\ ~InLog(log, Ev("fetch failed", f, 0)))
           => teams[f].json.lastUpdated \in dateISO(RunStart)..dateISO(now)

(***************************************************************************)
(* The extraction specification: the refresh of one entity, one await at a *)
(* time.  The tournament updater's getMhrText fetches the plain HTML and    *)
(* renders the page in a headless browser if the text shows no rank; the    *)
(* second team updater's updateOneTeam renders first and fetches the plain  *)
(* HTML if the render gave nothing.                                         *)
(***************************************************************************)
\* An extraction that was not attempted.
NotTried == [kind |-> "none", page |-> NoInfo]

\* extractTextPlaywright's null: playwright-chromium cannot be imported.
NotInstalled == [kind |-> "null", page |-> NoInfo]

\* The refresh under way: the function awaited (pc), what the plain fetch
\* (legacy) and the render (pw) gave.
Extraction(fn, pc, legacy, pw) == [fn |-> fn, pc |-> pc, legacy |-> legacy, pw |-> pw]

NoExtraction == Extraction("none", "idle", NotTried, NotTried)

\* What a page can show: both ranks, a rating only, a rating of 0, nothing.
PagesExtract == PagesRun \cup {Page(0, <<11, 4, 2>>, NoVal, NoVal)}

Outcomes == {Threw, NotOk} \cup {Got(p) : p \in PagesExtract}

\* fetchHtml of the tournament updater: libFetchHtml, and the native fetch if
\* that throws (it throws on a response that is not ok, too).
fetchHtml(lib, native) == IF lib.kind = "page" THEN lib ELSE native

\* getMhrText returns the render for every legacy text.
ranksMissing_Always(page) == TRUE

\* getMhrText: parseNationalRank and parseStateRank find nothing in the text.
ranksMissing(page) == page.nat = NoVal /\ page.st = NoVal

InitExtract ==
  /\ now = RunStart
  /\ call = NoExtraction
  /\ lastRun = NoRun
  /\ log = << >>
  /\ data = << >>
  /\ hist = << >>
  /\ \/ /\ run = [Running("tournaments") EXCEPT !.pc = "file", !.fi = 1]
        /\ teams = << >>
        /\ tourn \in {<<File(Tournament(e, <<o>>))>> :
                         e \in {7, 9},
                         o \in {SlugOpp,
                                Opp("inline", TRUE, NoVal, NoRecord, NoVal, NoVal, NoVal),
                                Complete(RunStart - 3 * 24),
                                Complete(RunStart - 7 * 24)}}
                       \cup {<<BadFile(NoTournament)>>}
        /\ opts \in {Opts(f, 7, FALSE, FALSE) : f \in BOOLEAN}
     \/ /\ run = [Running("teams-v2") EXCEPT !.pc = "file", !.fi = 1]
        /\ teams \in {<<File(t)>> : t \in RunTeams} \cup {<<BadFile(NoTeam)>>}
        /\ tourn = << >>
        /\ opts = Opts(FALSE, 7, FALSE, FALSE)

\* updateFile's loop on opponent run.oi, up to the await of getMhrText.
GetMhrText ==
  /\ run.script = "tournaments"
  /\ run.pc = "opp"
  /\ run.oi <= Len(data)
  /\ call.pc = "idle"
  /\ log' = log \o <<Ev("visit", run.fi, run.oi)>>
  /\ IF skipsOpponent(data[run.oi], opts.force, opts.staleDays, now)
     THEN /\ run' = [run EXCEPT !.oi = run.oi + 1]
          /\ UNCHANGED call
     ELSE /\ call' = Extraction("getMhrText", "extractTextLegacy", NotTried, NotTried)
          /\ UNCHANGED run
  /\ UNCHANGED <<now, teams, hist, tourn, opts, data, lastRun>>

\* updateFile's catch around getMhrText: warn and continue.
catchGetMhrText(legacy, pw) ==
  /\ run' = [run EXCEPT !.oi = run.oi + 1]
  /\ call' = Extraction("getMhrText", "idle", legacy, pw)
  /\ UNCHANGED data

\* updateFile after getMhrText returned textInfo: the parsers, the opponent's
\* fields, the change test.
applyTextInfo(legacy, pw) ==
  LET textInfo == IF pw.kind = "page" THEN pw ELSE legacy
      after == refreshOpponent(data[run.oi], textInfo.page, now)
  IN  /\ data' = [data EXCEPT ![run.oi] = after]
      /\ run' = [run EXCEPT !.oi = run.oi + 1,
                            !.changed = run.changed \/ after # data[run.oi]]
      /\ call' = Extraction("getMhrText", "idle", legacy, pw)

\* getMhrText: extractTextLegacy settles.
ExtractTextLegacy ==
  /\ call.fn = "getMhrText"
  /\ call.pc = "extractTextLegacy"
  /\ \E lib \in Outcomes, native \in Outcomes :
       LET legacy == fetchHtml(lib, native)
           fetches == <<Ev("fetch", run.fi, run.oi)>>
                        \o (IF lib.kind = "page" THEN << >>
                            ELSE <<Ev("fetch", run.fi, run.oi)>>)
       IN  IF legacy.kind # "page"
           THEN \* the native fetch throws, or its response is not ok
                /\ log' = log \o fetches \o <<Ev("fetch failed", run.fi, run.oi)>>
                /\ catchGetMhrText(legacy, NotTried)
           ELSE IF ranksMissing(legacy.page)
                THEN /\ log' = log \o fetches
                     /\ call' = Extraction("getMhrText", "extractTextPlaywright",
                                           legacy, NotTried)
                     /\ UNCHANGED <<run, data>>
                ELSE \* legacy already exposes ranks
                     /\ log' = log \o fetches
                     /\ applyTextInfo(legacy, NotTried)
  /\ UNCHANGED <<now, teams, hist, tourn, opts, lastRun>>

\* getMhrText: extractTextPlaywright settles: null when playwright-chromium
\* is not installed; an error of launch, of goto (its timeout included) or a
\* response that is not ok propagates, after browser.close().
ExtractTextPlaywright ==
  /\ call.fn = "getMhrText"
  /\ call.pc = "extractTextPlaywright"
  /\ \E pw \in {NotInstalled} \cup Outcomes :
       IF pw.kind \in {"throw", "notok"}
       THEN /\ log' = log \o <<Ev("render", run.fi, run.oi),
                               Ev("fetch failed", run.fi, run.oi)>>
            /\ catchGetMhrText(call.legacy, pw)
       ELSE /\ log' = log \o (IF pw.kind = "null" THEN << >>
                              ELSE <<Ev("render", run.fi, run.oi)>>)
            /\ applyTextInfo(call.legacy, pw)
  /\ UNCHANGED <<now, teams, hist, tourn, opts, lastRun>>

\* updateOneTeam up to the await of extractWithBrowser.
UpdateOneTeam ==
  /\ run.script = "teams-v2"
  /\ run.pc = "file"
  /\ run.fi <= NumFiles
  /\ call.pc = "idle"
  /\ log' = log \o <<Ev("visit", run.fi, 0)>>
  /\ IF ~teams[run.fi].ok \/ ~teams[run.fi].json.mhrUrl
     THEN \* invalid JSON, or no mhrUrl or id: skipped, then the throttle
          /\ run' = [run EXCEPT !.fi = run.fi + 1]
          /\ UNCHANGED call
     ELSE /\ call' = Extraction("updateOneTeam", "extractWithBrowser", NotTried, NotTried)
          /\ UNCHANGED run
  /\ UNCHANGED <<now, teams, hist, tourn, opts, data, lastRun>>

\* updateOneTeam once `info` is settled: the comparison, the write.
applyInfo(legacy, pw) ==
  LET info == IF emptyInfo(pw.page) THEN legacy.page ELSE pw.page
      res == updateOneTeam(teams[run.fi].json, info, dateISO(now))
  IN  /\ teams' = [teams EXCEPT ![run.fi] = File(res.team)]
      /\ run' = [run EXCEPT !.fi = run.fi + 1]
      /\ call' = Extraction("updateOneTeam", "idle", legacy, pw)
      /\ log' = log
           \o (IF legacy.kind = "none" THEN <<Ev("render", run.fi, 0)>>
               ELSE <<Ev("fetch", run.fi, 0)>>)
           \o (IF legacy.kind = "notok" THEN <<Ev("fetch failed", run.fi, 0)>> ELSE << >>)
           \o (IF res.changed THEN <<Ev("write team", run.fi, 0)>> ELSE << >>)
           \o <<Ev("sleep", run.fi, 300)>>

\* updateOneTeam: extractWithBrowser settles; an error becomes {}.
ExtractWithBrowser ==
  /\ call.fn = "updateOneTeam"
  /\ call.pc = "extractWithBrowser"
  /\ \E out \in Outcomes :
       LET pw == IF out.kind = "page" THEN out ELSE Threw
       IN  IF emptyInfo(pw.page)
           THEN /\ log' = log \o <<Ev("render", run.fi, 0)>>
                /\ call' = Extraction("updateOneTeam", "extractLegacy", NotTried, pw)
                /\ UNCHANGED <<run, teams>>
           ELSE applyInfo(NotTried, pw)
  /\ UNCHANGED <<now, hist, tourn, opts, data, lastRun>>

\* updateOneTeam: extractLegacy settles: {} for a response that is not ok;
\* an error of fetch goes to main's catch.
ExtractLegacy ==
  /\ call.fn = "updateOneTeam"
  /\ call.pc = "extractLegacy"
  /\ \E legacy \in Outcomes :
       IF legacy.kind = "throw"
       THEN /\ log' = log \o <<Ev("fetch", run.fi, 0), Ev("fetch failed", run.fi, 0)>>
            /\ run' = [run EXCEPT !.fi = run.fi + 1]
            /\ call' = Extraction("updateOneTeam", "idle", legacy, call.pw)
            /\ UNCHANGED teams
       ELSE applyInfo(legacy, call.pw)
  /\ UNCHANGED <<now, hist, tourn, opts, data, lastRun>>

NextExtract ==
  \/ TournOpen
  \/ GetMhrText
  \/ ExtractTextLegacy
  \/ ExtractTextPlaywright
  \/ TournClose
  \/ UpdateOneTeam
  \/ ExtractWithBrowser
  \/ ExtractLegacy
  \/ FinishRun

SpecExtract == InitExtract /\ [][NextExtract]_vars

(***************************************************************************)
(* Primary and secondary extraction: claims C21, C22 (SpecExtract).        *)
(***************************************************************************)
\* Event k of the log is of the given kind, and an event of kind `before` on
\* the same entity precedes it.
Preceded(k, before) ==
  \E j \in 1..(k - 1) : log[j] = Ev(before, log[k][2], log[k][3])

\* C21 as stated: in every refresh the plain HTML fetch comes first, and the
\* headless-browser render is invoked only after it has completed, and only
\* if its text shows neither a national rank nor a state rank.
C21_PrimaryFirst ==
  \A k \in DOMAIN log :
    log[k][1] = "render"
      => /\ Preceded(k, "fetch")
         /\ call.legacy.kind = "page"
         /\ call.legacy.page.nat = NoVal
         /\ call.legacy.page.st = NoVal

\* C21, amended: the tournament updater fetches the plain HTML first and
\* renders only after it, and only if the fetched text shows neither rank;
\* the second team updater renders first and fetches the plain HTML only
\* after the render failed or gave none of the four values.
C21_PrimaryFirstForOpponents ==
  \A k \in DOMAIN log :
    /\ (run.script = "tournaments" /\ log[k][1] = "render")
         => /\ Preceded(k, "fetch")
            /\ call.legacy.kind = "page"
            /\ call.legacy.page.nat = NoVal
            /\ call.legacy.page.st = NoVal
    /\ (run.script = "teams-v2" /\ log[k][1] = "fetch")
         => /\ Preceded(k, "render")
            /\ call.pw.kind \in {"throw", "page"}
            /\ call.pw.page = NoInfo

\* An opponent was rendered after its plain text showed a rating and no rank.
C21_Witness ==
  /\ run.script = "tournaments"
  /\ InLog(log, Ev("render", 1, 1))
  /\ call.legacy.page.rating = 8000
  /\ call.pw.kind = "page"
  /\ run.pc = "done"

\* C22: when the plain fetch succeeded and the render fails in any way
\* (launch error, navigation timeout, response that is not ok), the opponent
\* is still updated from the text the plain fetch produced, and no error is
\* reported for it.
C22_RenderFailureFallsBack ==
  (/\ run.script = "tournaments"
   /\ run.pc = "opp"
   /\ run.oi = 2
   /\ call.legacy.kind = "page"
   /\ call.pw.kind \in {"throw", "notok"})
    => /\ data[1] = refreshOpponent(tourn[run.fi].json.opponents[1],
                                    call.legacy.page, now)
       /\ ~InLog(log, Ev("fetch failed", run.fi, 1))

(***************************************************************************)
(* The day of a run: claim C24 (SpecRun).                                  *)
(***************************************************************************)
\* The calendar days the run has written: the lastUpdated of the team files
\* it saved (no team file has one before the run) and the date of the entry
\* it put at the end of a history series.
WrittenDays ==
  {teams[f].json.lastUpdated :
     f \in {g \in DOMAIN teams : teams[g].json.lastUpdated # NoVal}}
    \cup {hist[f][Len(hist[f])].date :
            f \in {g \in DOMAIN hist : InLog(log, Ev("write history", g, 0))}}

\* C24: within one run "today" is one calendar day: every history entry date
\* and every lastUpdated the run writes is the same day, even if the wall
\* clock passes midnight while the run is going through the entities.
C24_OneTodayPerRun ==
  Cardinality(WrittenDays) <= 1

(***************************************************************************)
(* Today's entry of append-ranks-to-history: claim C25 (Spec).             *)
(***************************************************************************)
LastOf(h) == h[Len(h)]

\* C25 as stated: a field that is not available today is not written into
\* today's entry: when the team has no numeric rating today, the entry
\* append-ranks writes carries no rating copied from the previous entry.
C25_AbsentRatingNotWritten ==
  \A f \in DOMAIN hist :
    (lastRun.script = "appendRanks" /\ lastRun.snap.rating = NoVal)
      => LastOf(hist[f]).rating = NoVal

\* C25, amended: when the team has no numeric rating today, the entry written
\* for today carries the rating of the last entry of the series as it was
\* read, if there is one, and no rating otherwise; a state or national rank
\* that is not available today is not copied from the series.
C25_AbsentRatingCarried ==
  [][\A f \in DOMAIN hist :
       lastRun'.script = "appendRanks"
         => /\ LastOf(hist'[f]).date = today
            /\ lastRun'.snap.rating = NoVal
                 => LastOf(hist'[f]).rating =
                      (IF Len(hist[f]) > 0 THEN LastOf(hist[f]).rating ELSE NoVal)
            /\ lastRun'.snap.stateRank = NoVal => LastOf(hist'[f]).stateRank = NoVal
            /\ lastRun'.snap.nationalRank = NoVal
                 => LastOf(hist'[f]).nationalRank = NoVal]_vars

\* append-ranks has written today's entry for a team without a rating, with
\* the rating and without the state rank of the entry before it.
C25_Witness ==
  /\ lastRun.script = "appendRanks"
  /\ lastRun.snap.rating = NoVal
  /\ lastRun.snap.stateRank = NoVal
  /\ Len(hist[1]) >= 2
  /\ hist[1][Len(hist[1]) - 1].stateRank = 3
  /\ LastOf(hist[1]) = Entry(today, 8000, NoVal, NoVal)

(***************************************************************************)
(* The command line of the tournament updater.  An argument "--name" or    *)
(* "--name=value" is the record of its name, whether it has an "=", and    *)
(* the text after the "=".                                                  *)
(***************************************************************************)
MaxArgs == 2

Arg(name, eq, val) == [name |-> name, eq |-> eq, val |-> val]

\* What getArg returns: the text after "=", true, or undefined.
GotString(s) == [t |-> "string", s |-> s]
GotTrue == [t |-> "true", s |-> ""]
GotUndefined == [t |-> "undefined", s |-> ""]

\* getArg(name): the first argument that is --name=... or --name decides.
getArg(argv, name) ==
  LET hits == {k \in DOMAIN argv : argv[k].name = name}
  IN  IF hits = {} THEN GotUndefined
      ELSE LET a == argv[MinOf(hits)]
           IN  IF a.eq THEN GotString(a.val) ELSE GotTrue

\* A JavaScript number: a finite integer, NaN or Infinity.
Num(v) == [k |-> "num", v |-> v]
NaN == [k |-> "nan", v |-> 0]
Infinity == [k |-> "inf", v |-> 0]

\* The numeric value of a string, StringToNumber: the empty string is 0.
StringToNumber(s) ==
  CASE s = "" -> Num(0)
    [] s = "0" -> Num(0)
    [] s = "3" -> Num(3)
    [] s = "14" -> Num(14)
    [] s = "-2" -> Num(0 - 2)
    [] s = "Infinity" -> Infinity
    [] OTHER -> NaN

\* Unary plus: +undefined is NaN, +true is 1, +"text" is its numeric value.
toNumber(x) ==
  CASE x.t = "undefined" -> NaN
    [] x.t = "true" -> Num(1)
    [] OTHER -> StringToNumber(x.s)

\* Default to 7 days unless overridden.
STALE_DAYS(argv) ==
  LET n == toNumber(getArg(argv, "stale-days"))
  IN  IF n.k = "num" /\ n.v > 0 THEN n.v ELSE 7

\* !!getArg(name): true, or a text that is not empty.
truthy(x) == x.t = "true" \/ (x.t = "string" /\ x.s # "")

ArgToks ==
  {Arg("force", FALSE, ""), Arg("include-past", FALSE, ""),
   Arg("stale-days", FALSE, "")}
    \cup {Arg("stale-days", TRUE, s) : s \in {"", "0", "3", "14", "-2", "abc", "Infinity"}}

\* The process has started with its command line; nothing is parsed yet.
InitArgs ==
  /\ now = RunStart
  /\ teams = << >>
  /\ hist = << >>
  /\ tourn = << >>
  /\ opts = Opts(FALSE, NoVal, FALSE, FALSE)
  /\ run = Idle
  /\ data = << >>
  /\ lastRun = NoRun
  /\ log = << >>
  /\ call \in {[fn |-> "argv", argv |-> a] : a \in SeqsUpTo(ArgToks, MaxArgs)}

\* The module's top level: FORCE, INCLUDE_PAST and STALE_DAYS are computed.
ParseArgs ==
  /\ run = Idle
  /\ opts' = Opts(truthy(getArg(call.argv, "force")),
                  STALE_DAYS(call.argv),
                  truthy(getArg(call.argv, "include-past")),
                  FALSE)
  /\ run' = Running("tournaments")
  /\ UNCHANGED <<now, teams, hist, tourn, data, lastRun, log, call>>

NextArgs == ParseArgs

SpecArgs == InitArgs /\ [][NextArgs]_vars

(***************************************************************************)
(* The staleness window: claim C26 (SpecArgs).                             *)
(***************************************************************************)
\* The --stale-days arguments of the command line, in order.
StaleArgs(argv) == SelectSeq(argv, LAMBDA a : a.name = "stale-days")

\* C26: the staleness window is n days when --stale-days=n is given with a
\* finite positive number n, and 7 days in every other case: flag absent,
\* given without a value, with a value that is not a number, zero or negative.
C26_StaleDaysDefault ==
  run.script = "tournaments"
    => LET given == StaleArgs(call.argv)
       IN  /\ given = <<Arg("stale-days", TRUE, "3")>> => opts.staleDays = 3
           /\ given = <<Arg("stale-days", TRUE, "14")>> => opts.staleDays = 14
           /\ (\A k \in DOMAIN given :
                 ~given[k].eq \/ given[k].val \in {"", "0", "-2", "abc", "Infinity"})
                => opts.staleDays = 7

(***************************************************************************)
(* What a refresh leaves of an opponent: claim C27 (SpecExtract).          *)
(***************************************************************************)
\* C27: a refresh never removes a value an inline opponent already has: an
\* opponent with a numeric rating (a record, a rank) before it is refreshed
\* still has one afterwards, whatever text the page yields, a page whose
\* labeled rating is 0 included.
C27_RefreshKeepsValues ==
  (run.script = "tournaments" /\ run.pc = "opp")
    => \A i \in DOMAIN data :
         LET before == tourn[run.fi].json.opponents[i]
         IN  /\ before.rating # NoVal => data[i].rating # NoVal
             /\ before.record # NoRecord => data[i].record # NoRecord
             /\ before.mhrNationalRank # NoVal => data[i].mhrNationalRank # NoVal
             /\ before.mhrStateRank # NoVal => data[i].mhrStateRank # NoVal

(***************************************************************************)
(* The write of a tournament file: claim C28 (SpecRun).                    *)
(***************************************************************************)
\* Opponent i of file f was fetched in this run, and the fetch did not fail.
FetchedOk(f, i) ==
  InLog(log, Ev("fetch", f, i)) /\ ~InLog(log, Ev("fetch failed", f, i))

\* C28: a tournament file is rewritten in a run if and only if at least one
\* of its inline opponents was fetched successfully in that run: also when no
\* rating, record or rank changed (updatedFromMHRAt is set on every
\* successful fetch), and not when every opponent was skipped as fresh or
\* failed to fetch.
C28_WrittenIffFetched ==
  run.script = "tournaments"
    => \A f \in DOMAIN tourn :
         FileDone(f)
           => (InLog(log, Ev("write tournament", f, 0))
                 <=> \E i \in DOMAIN tourn[f].json.opponents : FetchedOk(f, i))

\* The first file was rewritten after a fetch of its first opponent that
\* changed nothing but the timestamp, its second opponent being skipped.
C28_Witness ==
  /\ run.script = "tournaments"
  /\ run.pc = "done"
  /\ InLog(log, Ev("write tournament", 1, 0))
  /\ FetchedOk(1, 1)
  /\ ~InLog(log, Ev("fetch", 1, 2))
  /\ tourn[1].json.opponents[1] \in {Complete(RunStart), Complete(RunStart + 12)}
  /\ ~InLog(log, Ev("write tournament", 2, 0))
  /\ InLog(log, Ev("fetch failed", 2, 1))

(***************************************************************************)
(* The runs specification: the tournament updater run again and again on   *)
(* one tournament file, each run with its own flags, some time after the   *)
(* run before it.  The log is the log of the current run; lastRun holds    *)
(* what the run before left.                                                *)
(***************************************************************************)
MaxRuns == 2

\* What a finished run leaves for the next: the number of the next run, the
\* time it starts, the opponents as the file has them, and the opponents the
\* finished run fetched without an error.
Left(n, start, opps, refreshed) ==
  [script |-> "tournaments", n |-> n, start |-> start, opps |-> opps,
   refreshed |-> refreshed]

InitRuns ==
  /\ now = RunStart
  /\ call = NoCall
  /\ lastRun = NoRun
  /\ log = << >>
  /\ data = << >>
  /\ teams = << >>
  /\ hist = << >>
  /\ run = Running("tournaments")
  /\ tourn \in {<<File(Tournament(e, <<o, SlugOpp>>))>> :
                   e \in {NoVal, 8},
                   o \in {Opp("inline", TRUE, NoVal, NoRecord, NoVal, NoVal, NoVal),
                          Opp("inline", TRUE, NoVal, <<10, 4, 2>>, 12, 3, RunStart - 24),
                          Complete(RunStart - 7 * 24)}}
                 \cup {<<BadFile(NoTournament)>>}
  /\ opts \in {Opts(f, 7, FALSE, FALSE) : f \in BOOLEAN}

\* The wall clock advances while a run is under way.
TickRuns ==
  /\ run.pc \in {"start", "file", "opp"}
  /\ now < (IF lastRun.script = "none" THEN RunStart ELSE lastRun.start) + 12 * MaxTicks
  /\ now' = now + 12
  /\ UNCHANGED <<teams, hist, tourn, opts, run, data, lastRun, call, log>>

\* The script is started again, after a run that ended normally.
Rerun ==
  /\ run.pc = "done"
  /\ run.exit = 0
  /\ (IF lastRun.script = "none" THEN 1 ELSE lastRun.n) < MaxRuns
  /\ \E gap \in {24, 7 * 24 - 12} :  \* a day later, or half a day short of a week
       /\ now' = now + gap
       /\ lastRun' = Left((IF lastRun.script = "none" THEN 1 ELSE lastRun.n) + 1,
                          now + gap,
                          tourn[1].json.opponents,
                          {i \in DOMAIN tourn[1].json.opponents :
                             /\ InLog(log, Ev("fetch", 1, i))
                             /\ ~InLog(log, Ev("fetch failed", 1, i))})
  /\ opts' \in {Opts(f, n, p, FALSE) : f \in BOOLEAN, n \in {3, 7}, p \in BOOLEAN}
  /\ run' = Running("tournaments")
  /\ log' = << >>
  /\ UNCHANGED <<teams, hist, tourn, data, call>>

NextRuns ==
  \/ TickRuns
  \/ StartRun
  \/ TournOpen
  \/ TournOpp
  \/ TournClose
  \/ FinishRun
  \/ Rerun

SpecRuns == InitRuns /\ [][NextRuns]_vars

(***************************************************************************)
(* The cache from one run to the next: claim C29 (SpecRuns).               *)
(***************************************************************************)
\* The run before this one refreshed opponent i and left it with a numeric
\* rating and a record.
LeftComplete(i) ==
  /\ lastRun.script = "tournaments"
  /\ i \in lastRun.refreshed
  /\ lastRun.opps[i].rating # NoVal
  /\ lastRun.opps[i].record # NoRecord

\* The run before this one refreshed opponent i and left it without a rating
\* or without a record.
LeftIncomplete(i) ==
  /\ lastRun.script = "tournaments"
  /\ i \in lastRun.refreshed
  /\ lastRun.opps[i].rating = NoVal \/ lastRun.opps[i].record = NoRecord

\* The run has ended normally.
RunOver == run.pc = "done" /\ run.exit = 0

\* C29 as stated: after a run that refreshes an opponent and leaves it with a
\* numeric rating and a record, a later run without --force that starts less
\* than staleDays days after that refresh performs no request for it; an
\* opponent whose refresh leaves it without a rating or without a record is
\* fetched again on every run.
C29_CachedUntilStale ==
  \A i \in 1..2 :
    /\ (/\ LeftComplete(i)
        /\ ~opts.force
        /\ lastRun.start - lastRun.opps[i].updatedFromMHRAt < opts.staleDays * 24)
         => ~InLog(log, Ev("fetch", 1, i))
    /\ (LeftIncomplete(i) /\ RunOver) => InLog(log, Ev("fetch", 1, i))

\* C29, amended: after a run that refreshes an opponent and leaves it with a
\* numeric rating and a record, a later run without --force performs no
\* request for it as long as less than staleDays days have passed since that
\* refresh when the run's loop comes to the opponent; an opponent whose
\* refresh leaves it without a rating or without a record is fetched again by
\* every later run that does not skip the tournament as past.
C29_CachedUntilStaleAtTurn ==
  /\ [][\A i \in 1..2 :
          (/\ LeftComplete(i)
           /\ ~opts.force
           /\ ~InLog(log, Ev("fetch", 1, i))
           /\ InLog(log', Ev("fetch", 1, i)))
            => now - lastRun.opps[i].updatedFromMHRAt >= opts.staleDays * 24]_vars
  /\ [](\A i \in 1..2 :
          (LeftIncomplete(i) /\ RunOver /\ InLog(log, Ev("open", 1, 0)))
            => InLog(log, Ev("fetch", 1, i)))

\* A second run without --force has passed over the opponent the first run
\* refreshed and left complete, three days before.
C29_Witness ==
  /\ LeftComplete(1)
  /\ RunOver
  /\ ~opts.force
  /\ InLog(log, Ev("visit", 1, 1))
  /\ ~InLog(log, Ev("fetch", 1, 1))
  /\ lastRun.opps[1].updatedFromMHRAt >= RunStart

(***************************************************************************)
(* What a run may change in a tournament file: claim C30 (SpecRun).        *)
(***************************************************************************)
\* C30: a run of the tournament updater never adds, removes or reorders the
\* entries of a tournament's opponents array; slug opponents and inline
\* opponents without an mhrUrl are left exactly as they were, and on a
\* refreshed inline opponent only rating, record, mhrNationalRank,
\* mhrStateRank and updatedFromMHRAt can change.
C30_OpponentsFrame ==
  [][\A f \in DOMAIN tourn :
       LET before == tourn[f].json.opponents
           after == tourn'[f].json.opponents
       IN  /\ tourn'[f].ok = tourn[f].ok
           /\ tourn'[f].json.endDate = tourn[f].json.endDate
           /\ Len(after) = Len(before)
           /\ \A i \in DOMAIN before :
                /\ after[i].kind = before[i].kind
                /\ after[i].mhrUrl = before[i].mhrUrl
                /\ ~HasUrl(before[i]) => after[i] = before[i]]_vars

\* The first file was rewritten with its second opponent refreshed; its first
\* opponent, an inline object without an mhrUrl, is as it was.
C30_Witness ==
  /\ run.script = "tournaments"
  /\ run.pc = "done"
  /\ InLog(log, Ev("write tournament", 1, 0))
  /\ tourn[1].json.opponents[1] = Opp("inline", FALSE, NoVal, NoRecord, NoVal, NoVal, NoVal)
  /\ tourn[1].json.opponents[2].updatedFromMHRAt >= RunStart
  /\ tourn[1].json.opponents[2].rating = 8100

====
